---- MODULE Spec2Model ----
\* A model of niftynet/io/image_reader.py: the ImageReader layer (manifest
\* merging, record building, index resolution and the preprocessing chain).
EXTENDS Integers, Sequences, FiniteSets, TLC

\* ------------------------------------------------------------------ bounds
MaxRows == 3        \* rows of one csv manifest
MaxSubj == 4        \* distinct subject ids a manifest can name
MaxRecords == 2     \* rows of a manifest of the reader specifications
MaxLayers == 1      \* preprocessing layers a reader is given
MaxDraw == 2        \* values a randomise() draws from
MaxSeq == 3         \* sequential-mode accesses made on one reader
MaxChain == 3       \* layers of a pipeline of the pipeline specification

\* --------------------------------------------------------------- state
VARIABLES
    names_,          \* self._names
    input_sources_,  \* self._input_sources  (<<>> is None, <<m>> is the dict m)
    file_list_,      \* self._file_list      (<<>> is None, <<t>> is the table t)
    output_list,     \* self.output_list     (<<>> is None, <<l>> is the list l)
    shapes_,         \* self._shapes         (<<>> is None)
    dtypes_,         \* self._dtypes         (<<>> is None)
    current_id,      \* self.current_id
    preprocessors,   \* self.preprocessors, the canonical layer objects
    arg,             \* the arguments of the last call
    result,          \* what the last call returned or raised
    seqlog,          \* history: how many sequential-mode accesses were made
                     \* (calls), and how many of them before the reader was
                     \* initialised (early)
    threads,         \* concurrent callers: where each is in layer_op, and its
                     \* local variables
    hist             \* history of the concurrent callers: race, whether a
                     \* caller read the cursor while another had read it and
                     \* not yet written it; served, the indices each caller's
                     \* sequential-mode accesses returned; lost, the indices
                     \* whose sequential-mode access raised

vars == <<names_, input_sources_, file_list_, output_list, shapes_, dtypes_,
          current_id, preprocessors, arg, result, seqlog, threads, hist>>

\* Python's None for a value that is otherwise a dict, a list or a table.
None == <<>>
Some(x) == <<x>>
IsNone(o) == o = <<>>
Val(o) == o[1]

\* A call that returns v / a call that raises the exception e.
Return(v) == [kind |-> "return", err |-> "", value |-> Some(v)]
Raise(e) == [kind |-> "raise", err |-> e, value |-> None]

\* ------------------------------------------------------ sequence helpers
RECURSIVE SeqMin(_)
SeqMin(s) ==
    IF Len(s) = 1 THEN s[1]
    ELSE LET m == SeqMin(Tail(s)) IN IF s[1] < m THEN s[1] ELSE m

Range(s) == {s[i] : i \in DOMAIN s}

\* s without its repeated elements, first occurrences kept in order
RECURSIVE Dedup(_)
Dedup(s) ==
    IF s = <<>> THEN <<>>
    ELSE LET init == Dedup(SubSeq(s, 1, Len(s) - 1))
             last == s[Len(s)]
         IN IF last \in Range(init) THEN init ELSE Append(init, last)

SeqsUpTo(S, n) == UNION {[1..k -> S] : k \in 1..n}

\* ------------------------------------------------- csv manifests, merge
\* A section of data_param: whether its csv_file is a file, the subject ids
\* of the rows of that file, and the interp_order of the modality.
\* pandas.read_csv(csv_file, header=None, names=['subject_id', modality_name]):
\* one row per line; the path of line k of modality m is written [mod, line].
ReadCsv(modality_name, section) ==
    [k \in 1..Len(section.rows) |->
        [subject_id |-> section.rows[k],
         paths |-> (modality_name :> [mod |-> modality_name, line |-> k])]]

\* The rows of `right` that match the left row l, each joined to l.
JoinRow(l, right) ==
    LET hits == SelectSeq(right, LAMBDA r : r.subject_id = l.subject_id)
    IN [i \in 1..Len(hits) |->
           [subject_id |-> l.subject_id, paths |-> l.paths @@ hits[i].paths]]

\* The join with the roles of the frames swapped: rows in the order of `right`.
RECURSIVE PandasMergeRightOrder(_, _)
PandasMergeRightOrder(left, right) ==
    IF right = <<>> THEN <<>>
    ELSE LET r == Head(right)
             hits == SelectSeq(left, LAMBDA l : l.subject_id = r.subject_id)
         IN [i \in 1..Len(hits) |->
                [subject_id |-> r.subject_id, paths |-> hits[i].paths @@ r.paths]]
            \o PandasMergeRightOrder(left, Tail(right))

\* pandas.merge(left, right, on='subject_id'): the inner join, one row per
\* matching pair of rows, in the order of the left keys.
RECURSIVE PandasMerge(_, _)
PandasMerge(left, right) ==
    IF left = <<>> THEN <<>>
    ELSE JoinRow(Head(left), right) \o PandasMerge(Tail(left), right)

\* The loop of load_and_merge_csv_files over data_param, a sequence of
\* [name, section] in the dict's iteration order. acc is _file_list, warned
\* the csv files a "rows not matched" warning was logged for.
RECURSIVE MergeLoop(_, _, _)
MergeLoop(todo, acc, warned) ==
    IF todo = <<>> THEN [kind |-> "done", table |-> acc, warned |-> warned]
    ELSE LET modality_name == Head(todo).name
             section == Head(todo).section
         IN IF ~section.csv_ok
            THEN [kind |-> "IOError", table |-> acc, warned |-> warned]
            ELSE LET csv_list == ReadCsv(modality_name, section)
                 IN IF IsNone(acc)
                    THEN MergeLoop(Tail(todo), Some(csv_list), warned)
                    ELSE LET n_rows == Len(Val(acc))
                             merged == PandasMerge(Val(acc), csv_list)
                         IN MergeLoop(Tail(todo), Some(merged),
                                IF Len(merged) # n_rows
                                THEN Append(warned, modality_name)
                                ELSE warned)

\* load_and_merge_csv_files without the check of lines 155-160: a table of
\* no rows is returned like any other.
load_and_merge_unchecked(data_param) ==
    LET r == MergeLoop(data_param, None, <<>>)
        out(res) == [kind |-> res.kind, err |-> res.err, value |-> res.value,
                     warned |-> r.warned]
    IN IF r.kind = "IOError" THEN out(Raise("IOError"))
       ELSE IF IsNone(r.table) THEN out(Raise("AttributeError"))
       ELSE out(Return(Val(r.table)))

\* load_and_merge_csv_files(data_param): the joint table, or the exception.
\* With no section at all _file_list is still None at `_file_list.size`.
load_and_merge_csv_files(data_param) ==
    LET r == MergeLoop(data_param, None, <<>>)
        out(res) == [kind |-> res.kind, err |-> res.err, value |-> res.value,
                     warned |-> r.warned]
    IN IF r.kind = "IOError" THEN out(Raise("IOError"))
       ELSE IF IsNone(r.table) THEN out(Raise("AttributeError"))
       ELSE IF Len(Val(r.table)) = 0 THEN out(Raise("IOError"))
       ELSE out(Return(Val(r.table)))

\* A section of data_param whose csv_file is not a file / is a file with
\* these rows; interp_order is the modality's interpolation order and kind the
\* numpy dtype kind of its volumes.
MissingCsv == [csv_ok |-> FALSE, rows |-> <<>>, interp_order |-> 0, kind |-> "f"]
CsvSection(rows, order, kind) ==
    [csv_ok |-> TRUE, rows |-> rows, interp_order |-> order, kind |-> kind]

\* ------------------------------------------------------- record building
\* create_image(file_list, idx, modalities, data_param): the properties handed
\* to ImageFactory.create_instance (pixdim and axcodes are passed through the
\* same way and are left out). Every modality is a column of file_list and a
\* section of data_param here (initialise_reader has checked it), so the
\* KeyError branch is not taken.
create_image(file_list, idx, modalities, data_param) ==
    [file_path |-> [m \in 1..Len(modalities) |-> file_list[idx].paths[modalities[m]]],
     name |-> modalities,
     interp_order |->
        [m \in 1..Len(modalities) |-> data_param[modalities[m]].interp_order],
     kind |-> data_param[modalities[1]].kind]

\* filename_to_image_list(file_list, mod_dict, data_param)
filename_to_image_list(file_list, mod_dict, data_param) ==
    [idx \in 1..Len(file_list) |->
        [field \in DOMAIN mod_dict |->
            create_image(file_list, idx, mod_dict[field], data_param)]]

\* ------------------------------------------------------- image handles
DataMod == 4        \* volumes are numbers modulo DataMod

RECURSIVE SumLines(_)
SumLines(file_path) ==
    IF file_path = <<>> THEN 0 ELSE Head(file_path).line + SumLines(Tail(file_path))

\* image.get_data(): the volume read from the files of the handle
GetData(image) == SumLines(image.file_path) % DataMod

\* image.shape: only the number of modalities is modelled
ShapeOf(image) == <<Len(image.file_path)>>

\* infer_tf_dtypes(image_array): NP_TF_DTYPES.get(kind, tf.float32)
infer_tf_dtypes(image) ==
    IF image.kind \in {"i", "u", "b"} THEN "tf.int32" ELSE "tf.float32"

\* ------------------------------------------------------ preprocessing layers
\* A layer object: its class (Layer, DataDependentLayer, RandomisedLayer), or
\* the None placeholder; whether calling it raises; and its mutable state:
\* fitted (-1 never trained, 0 trained on None, n trained on n records),
\* rnd (the parameters drawn by randomise) and touched (set by a call).
NewLayer(kind, fails) ==
    [kind |-> kind, fails |-> fails, fitted |-> -1, rnd |-> 0, touched |-> FALSE]
NoneLayer == NewLayer("none", FALSE)

\* layer.train(image_list)
Train(layer, image_list) ==
    [layer EXCEPT !.fitted = IF IsNone(image_list) THEN 0 ELSE Len(Val(image_list))]

\* prepare_preprocessors: train every DataDependentLayer of the list
prepare_preprocessors(layers, image_list) ==
    [k \in 1..Len(layers) |->
        IF layers[k].kind = "datadep" THEN Train(layers[k], image_list)
        ELSE layers[k]]

\* layer.randomise(): draw r
Randomise(layer, r) == [layer EXCEPT !.rnd = r]

Bump(layer) == IF layer.touched THEN 1 ELSE 0

\* layer(image_data_dict, interp_order_dict) of a RandomisedLayer
ApplyRandomised(layer, image_data_dict, interp_order_dict) ==
    [field \in DOMAIN image_data_dict |->
        (image_data_dict[field] + layer.rnd + Bump(layer)) % DataMod]

\* layer(image_data_dict, mask) of any other layer: (image_data_dict, mask).
\* The volumes it returns depend on the volumes and the mask it is given, on
\* its class and training, and on the order of the layers (doubling and
\* adding do not commute); the mask it returns counts the layers that have
\* handled it.
ApplyLayer(layer, image_data_dict, mask) ==
    LET m == IF IsNone(mask) THEN 0 ELSE Val(mask)
        gain == IF layer.kind = "datadep" THEN layer.fitted + 1 ELSE 1
    IN [data |-> [field \in DOMAIN image_data_dict |->
                     (2 * image_data_dict[field] + gain + m + Bump(layer)) % DataMod],
        mask |-> Some(m + 1)]

\* Whether calling the layer on these volumes raises: a layer that always
\* raises, or one (kind "picky") that rejects a record with an odd volume.
Rejects(layer, image_data_dict) ==
    \/ layer.fails
    \/ /\ layer.kind = "picky"
       /\ \E field \in DOMAIN image_data_dict : image_data_dict[field] % 2 = 1

\* The layer object after it was called.
Touched(layer) == [layer EXCEPT !.touched = TRUE]

\* The list comprehension of line 117 with the deepcopy left out: the new
\* list holds the reader's own layer objects.
ShallowCopyLayers(layers) == [own |-> FALSE, layers |-> layers]

\* [deepcopy(layer) for layer in self.preprocessors]: a list of new objects,
\* private to the access (own), equal to the reader's layers.
DeepCopyLayers(layers) == [own |-> TRUE, layers |-> layers]

\* Line 124 at position k: layer.randomise() if the layer is a
\* RandomisedLayer; r is what it draws.
RandomiseTurn(layers, k, r) ==
    IF layers[k].kind = "random"
    THEN [layers EXCEPT ![k] = Randomise(layers[k], r)]
    ELSE layers

\* Lines 121-127 with the mask assigned in the RandomisedLayer branch too:
\* image_data_dict, mask = layer(...), the mask counted on by that layer.
CallTurnMaskedRandom(layers, k, data, interp, mask) ==
    LET layer == layers[k]
        called == [layers EXCEPT ![k] = Touched(layer)]
    IN IF layer.kind = "none"
       THEN [kind |-> "ok", layers |-> layers, data |-> data, mask |-> mask]
       ELSE IF Rejects(layer, data)
       THEN [kind |-> "raise", layers |-> layers, data |-> data, mask |-> mask]
       ELSE IF layer.kind = "random"
       THEN [kind |-> "ok", layers |-> called,
             data |-> ApplyRandomised(layer, data, interp),
             mask |-> Some((IF IsNone(mask) THEN 0 ELSE Val(mask)) + 1)]
       ELSE LET out == ApplyLayer(layer, data, mask)
            IN [kind |-> "ok", layers |-> called, data |-> out.data,
                mask |-> out.mask]

\* Lines 121-127 at position k without the randomise: None is skipped, any
\* other layer is called. The layers, the data and the mask after it, or the
\* layer's exception.
CallTurn(layers, k, data, interp, mask) ==
    LET layer == layers[k]
        called == [layers EXCEPT ![k] = Touched(layer)]
    IN IF layer.kind = "none"
       THEN [kind |-> "ok", layers |-> layers, data |-> data, mask |-> mask]
       ELSE IF Rejects(layer, data)
       THEN [kind |-> "raise", layers |-> layers, data |-> data, mask |-> mask]
       ELSE IF layer.kind = "random"
       THEN [kind |-> "ok", layers |-> called,
             data |-> ApplyRandomised(layer, data, interp), mask |-> mask]
       ELSE LET out == ApplyLayer(layer, data, mask)
            IN [kind |-> "ok", layers |-> called, data |-> out.data,
                mask |-> out.mask]

\* One turn of the loop over the copied layers (lines 120-127) at position k.
LoopTurn(layers, k, data, interp, mask, r) ==
    CallTurn(RandomiseTurn(layers, k, r), k, data, interp, mask)

\* The whole loop from position k on; draws[k] is what randomise draws at k.
RECURSIVE RunLayers(_, _, _, _, _, _)
RunLayers(layers, k, data, interp, mask, draws) ==
    IF k > Len(layers)
    THEN [kind |-> "ok", layers |-> layers, data |-> data, mask |-> mask]
    ELSE LET t == LoopTurn(layers, k, data, interp, mask, draws[k])
         IN IF t.kind = "raise" THEN t
            ELSE RunLayers(t.layers, k + 1, t.data, interp, t.mask, draws)

\* ------------------------------------------------------------ constructor
\* ImageReader.__init__(names)
Constructed(names) ==
    /\ names_ = names
    /\ input_sources_ = None
    /\ file_list_ = None
    /\ output_list = None
    /\ shapes_ = None
    /\ dtypes_ = None
    /\ current_id = -1
    /\ preprocessors = <<>>

ReaderUnchanged ==
    UNCHANGED <<names_, input_sources_, file_list_, output_list, shapes_,
                dtypes_, current_id, preprocessors, threads, hist>>

\* ------------------------------------------------------ initialise_reader
\* The sources to load, in the order data_to_load (a dict) first gets them:
\* names in order, the sources of each name in order.
RECURSIVE SourcesInOrder(_, _)
SourcesInOrder(names, input_sources) ==
    IF names = <<>> THEN <<>>
    ELSE input_sources[Head(names)] \o SourcesInOrder(Tail(names), input_sources)

\* initialise_reader(data_param, task_param) on a reader whose names are
\* `names`: the fields it assigns and what it returns or raises. task_param
\* maps a field name to its tuple of sources (<<>> when it has none), and
\* data_param a source name to its section.
initialise_reader(names, task_param, data_param) ==
    LET kept == SelectSeq(names, LAMBDA name : task_param[name] # <<>>)
        input_sources == [name \in Range(kept) |-> task_param[name]]
        sources == Dedup(SourcesInOrder(kept, input_sources))
        data_to_load ==
            [i \in 1..Len(sources) |->
                [name |-> sources[i], section |-> data_param[sources[i]]]]
        merged == load_and_merge_csv_files(data_to_load)
        upTo53 == [names |-> kept, input_sources |-> Some(input_sources),
                   file_list |-> None, output_list |-> None]
    IN IF names = <<>>
       THEN [assigned |-> FALSE, result |-> Raise("ValueError")]
       ELSE IF \E i \in 1..Len(sources) : sources[i] \notin DOMAIN data_param
       THEN [assigned |-> TRUE, fields |-> upTo53, result |-> Raise("ValueError")]
       ELSE IF merged.kind = "raise"
       THEN [assigned |-> TRUE, fields |-> upTo53, result |-> merged]
       ELSE [assigned |-> TRUE,
             fields |-> [names |-> kept, input_sources |-> Some(input_sources),
                         file_list |-> merged.value,
                         output_list |->
                            Some(filename_to_image_list(Val(merged.value),
                                                        input_sources, data_param))],
             result |-> [kind |-> "return", err |-> "", value |-> None,
                         warned |-> merged.warned]]

\* The action: initialise_reader is called once per catalogue, and again only
\* after a call that failed.
InitialiseReader(task_param, data_param) ==
    LET out == initialise_reader(names_, task_param, data_param)
    IN /\ IsNone(output_list)
       /\ arg' = [op |-> "initialise_reader", task_param |-> task_param,
                  data_param |-> data_param]
       /\ result' = out.result
       /\ IF out.assigned
          THEN /\ names_' = out.fields.names
               /\ input_sources_' = out.fields.input_sources
               /\ IF IsNone(out.fields.output_list)
                  THEN UNCHANGED <<file_list_, output_list>>
                  ELSE /\ file_list_' = out.fields.file_list
                       /\ output_list' = out.fields.output_list
          ELSE UNCHANGED <<names_, input_sources_, file_list_, output_list>>
       /\ UNCHANGED <<shapes_, dtypes_, current_id, preprocessors, seqlog,
                       threads, hist>>

\* ----------------------------------------------- add_preprocessing_layers
\* add_preprocessing_layers training the layers it is given only
add_layers_train_given(current, layers, image_list) ==
    current \o prepare_preprocessors(layers, image_list)

\* add_preprocessing_layers(layers): a Layer is appended, a list extends the
\* list; then prepare_preprocessors trains the data dependent layers.
add_preprocessing_layers(current, layers, image_list) ==
    prepare_preprocessors(current \o layers, image_list)

AddPreprocessingLayers(layers, single) ==
    /\ Len(preprocessors) + Len(layers) <= MaxLayers
    /\ single => (Len(layers) = 1 /\ layers[1].kind # "none")
    /\ preprocessors' = add_preprocessing_layers(preprocessors, layers, output_list)
    /\ arg' = [op |-> "add_preprocessing_layers", layers |-> layers,
               single |-> single]
    /\ result' = [kind |-> "return", err |-> "", value |-> None]
    /\ UNCHANGED <<names_, input_sources_, file_list_, output_list, shapes_,
                   dtypes_, current_id, seqlog, threads, hist>>

\* ----------------------------------------------------------------- layer_op
\* The idx argument: None, an int, a decimal string, a string that is no
\* number, float('nan'), float('inf'), a list.
NoIdx == [t |-> "None", v |-> 0]
IntIdx(v) == [t |-> "int", v |-> v]

\* int(idx)
int_(idx) ==
    CASE idx.t \in {"int", "str"} -> [kind |-> "ok", v |-> idx.v]
      [] idx.t \in {"badstr", "nan"} -> [kind |-> "ValueError", v |-> 0]
      [] idx.t = "inf" -> [kind |-> "OverflowError", v |-> 0]
      [] OTHER -> [kind |-> "TypeError", v |-> 0]

\* lines 103-106: try: idx = int(idx) except ValueError: idx = -1
Coerce(idx) ==
    LET r == int_(idx)
    IN IF r.kind = "ValueError" THEN [kind |-> "ok", v |-> -1] ELSE r

\* line 100 without the increment
SeqIdxStuck(cur) == cur

\* line 100 adding two
SeqIdxSkips(cur) == cur + 2

\* line 100: idx = self.current_id + 1
SeqIdx(cur) == cur + 1

\* line 101 left out: the cursor keeps its value
CursorKept(cur, idx) == cur

\* line 101 storing the index after the one served
CursorAhead(cur, idx) == idx + 1

\* line 101: self.current_id = idx
CursorAfter(cur, idx) == idx

\* line 101 moved behind the loop over the layers: an access that raises
\* leaves the cursor where it was
CursorOnSuccess(cur, idx, res) ==
    IF res.kind = "raise" THEN cur ELSE CursorAfter(cur, idx)

\* The cursor after a sequential-mode access that ends with res: line 101
\* runs before lines 103-127, whatever they return or raise.
CursorOnOutcome(cur, idx, res) == CursorAfter(cur, idx)

\* line 108: idx < 0 or idx >= len(self.output_list)
OutOfRange(idx, n) == idx < 0 \/ idx >= n

\* lines 114-115 taking the order of the first field for every field
InterpOrderDictFirst(image_dict) ==
    [field \in DOMAIN image_dict |->
        image_dict[CHOOSE f \in DOMAIN image_dict : TRUE].interp_order]

\* lines 112-113: {field: image.get_data()}
ImageDataDict(image_dict) == [field \in DOMAIN image_dict |-> GetData(image_dict[field])]

\* lines 114-115: {field: image.interp_order}
InterpOrderDict(image_dict) ==
    [field \in DOMAIN image_dict |-> image_dict[field].interp_order]

Sentinel == [idx |-> -1, data |-> None, interp |-> None]

\* Lines 103-115: the coercion, the bounds check and the fetch. idx is what
\* lines 93-101 left in idx. Either the call ends here (the sentinel, or an
\* exception), or the record's data and interp_order dicts are ready.
Resolve(idx, image_list) ==
    LET c == Coerce(idx)
        ends(res) == [kind |-> "ends", result |-> res]
    IN IF c.kind # "ok" THEN ends(Raise(c.kind))
       ELSE IF c.v < 0 THEN ends(Return(Sentinel))
       ELSE IF IsNone(image_list) THEN ends(Raise("TypeError"))
       ELSE IF OutOfRange(c.v, Len(Val(image_list))) THEN ends(Return(Sentinel))
       ELSE LET image_dict == Val(image_list)[c.v + 1]
            IN [kind |-> "record", idx |-> c.v,
                data |-> ImageDataDict(image_dict),
                interp |-> InterpOrderDict(image_dict)]

\* line 128: return idx, image_data_dict, interp_order_dict
Triple(idx, data, interp) ==
    Return([idx |-> idx, data |-> Some(data), interp |-> Some(interp)])

\* Lines 103-128. layers are the reader's preprocessors, draws what randomise
\* draws at each position. Gives what the call returns or raises and the
\* reader's layer objects after it.
ServeIndex(idx, image_list, layers, draws) ==
    LET r == Resolve(idx, image_list)
    IN IF r.kind = "ends" THEN [result |-> r.result, layers |-> layers]
       ELSE IF layers = <<>>
       THEN [result |-> Triple(r.idx, r.data, r.interp), layers |-> layers]
       ELSE LET copy == DeepCopyLayers(layers)
                run == RunLayers(copy.layers, 1, r.data, r.interp, None, draws)
                after == IF copy.own THEN layers ELSE run.layers
            IN IF run.kind = "raise"
               THEN [result |-> Raise("LayerError"), layers |-> after]
               ELSE [result |-> Triple(r.idx, run.data, r.interp), layers |-> after]

\* What randomise can draw at each position of the layers (0 where the layer
\* is not a RandomisedLayer), when idx gets as far as the loop over the layers.
Served(idx, image_list) ==
    Resolve(idx, image_list).kind = "record"
DrawChoices(idx, image_list, layers) ==
    IF Served(idx, image_list)
    THEN {d \in [1..Len(layers) -> 0..MaxDraw] :
            \A k \in 1..Len(layers) : (d[k] > 0) <=> (layers[k].kind = "random")}
    ELSE {[k \in 1..Len(layers) |-> 0]}

\* random.randint(0, n) in place of np.random.randint(n): n is drawn too
RandIntInclusive(n) == 0..n

\* line 95: what np.random.randint(n) can draw
RandInt(n) == 0..(n - 1)

\* layer_op(idx, shuffle), random mode: idx = np.random.randint(len(...))
LayerOpRandom ==
    /\ arg' = [op |-> "layer_op", idx |-> NoIdx, shuffle |-> TRUE]
    /\ IF IsNone(output_list)
       THEN /\ result' = Raise("TypeError")
            /\ UNCHANGED preprocessors
       ELSE \E r \in RandInt(Len(Val(output_list))) :
            \E draws \in DrawChoices(IntIdx(r), output_list, preprocessors) :
               LET out == ServeIndex(IntIdx(r), output_list, preprocessors, draws)
               IN /\ result' = out.result
                  /\ preprocessors' = out.layers
    /\ UNCHANGED <<names_, input_sources_, file_list_, output_list, shapes_,
                   dtypes_, current_id, seqlog, threads, hist>>

\* layer_op(idx=None, shuffle=False), sequential mode
LayerOpSequential ==
    /\ seqlog.calls < MaxSeq
    /\ arg' = [op |-> "layer_op", idx |-> NoIdx, shuffle |-> FALSE]
    /\ \E draws \in DrawChoices(IntIdx(SeqIdx(current_id)), output_list,
                                 preprocessors) :
          LET idx == SeqIdx(current_id)
              out == ServeIndex(IntIdx(idx), output_list, preprocessors, draws)
          IN /\ current_id' = CursorOnOutcome(current_id, idx, out.result)
             /\ result' = out.result
             /\ preprocessors' = out.layers
             /\ seqlog' = [calls |-> seqlog.calls + 1,
                            early |-> seqlog.early +
                                      IF IsNone(output_list) THEN 1 ELSE 0]
    /\ UNCHANGED <<names_, input_sources_, file_list_, output_list, shapes_,
                   dtypes_, threads, hist>>

\* layer_op(idx, shuffle) with an idx given, explicit mode
LayerOpExplicit(idx, shuffle) ==
    /\ idx.t # "None"
    /\ arg' = [op |-> "layer_op", idx |-> idx, shuffle |-> shuffle]
    /\ \E draws \in DrawChoices(idx, output_list, preprocessors) :
          LET out == ServeIndex(idx, output_list, preprocessors, draws)
          IN /\ result' = out.result
             /\ preprocessors' = out.layers
    /\ UNCHANGED <<names_, input_sources_, file_list_, output_list, shapes_,
                   dtypes_, current_id, seqlog, threads, hist>>

\* ------------------------------------------------------------- properties
\* the property shapes
Shapes ==
    /\ arg' = [op |-> "shapes"]
    /\ IF IsNone(output_list)
       THEN /\ result' = Raise("RuntimeError")
            /\ UNCHANGED shapes_
       ELSE LET first_image == Val(output_list)[1]
                computed == [field \in Range(names_) |-> ShapeOf(first_image[field])]
            IN /\ shapes_' = IF IsNone(shapes_) THEN Some(computed) ELSE shapes_
               /\ result' = Return(Val(shapes_'))
    /\ UNCHANGED <<names_, input_sources_, file_list_, output_list, dtypes_,
                   current_id, preprocessors, seqlog, threads, hist>>

\* tf_dtypes testing and filling the cache of shapes (self._shapes for
\* self._dtypes in lines 182-186)
TfDtypesSharedCache ==
    /\ arg' = [op |-> "tf_dtypes"]
    /\ IF IsNone(output_list)
       THEN /\ result' = Raise("RuntimeError")
            /\ UNCHANGED shapes_
       ELSE LET first_image == Val(output_list)[1]
                computed == [field \in Range(names_) |->
                                infer_tf_dtypes(first_image[field])]
            IN /\ shapes_' = IF IsNone(shapes_) THEN Some(computed) ELSE shapes_
               /\ result' = Return(Val(shapes_'))
    /\ UNCHANGED <<names_, input_sources_, file_list_, output_list, dtypes_,
                   current_id, preprocessors, seqlog, threads, hist>>

\* the property tf_dtypes
TfDtypes ==
    /\ arg' = [op |-> "tf_dtypes"]
    /\ IF IsNone(output_list)
       THEN /\ result' = Raise("RuntimeError")
            /\ UNCHANGED dtypes_
       ELSE LET first_image == Val(output_list)[1]
                computed == [field \in Range(names_) |->
                                infer_tf_dtypes(first_image[field])]
            IN /\ dtypes_' = IF IsNone(dtypes_) THEN Some(computed) ELSE dtypes_
               /\ result' = Return(Val(dtypes_'))
    /\ UNCHANGED <<names_, input_sources_, file_list_, output_list, shapes_,
                   current_id, preprocessors, seqlog, threads, hist>>

\* the property input_sources: `not self._input_sources` holds of None and {}
InputSources ==
    /\ arg' = [op |-> "input_sources"]
    /\ result' = IF IsNone(input_sources_) \/ DOMAIN Val(input_sources_) = {}
                 THEN Raise("RuntimeError")
                 ELSE Return(Val(input_sources_))
    /\ UNCHANGED <<names_, input_sources_, file_list_, output_list, shapes_,
                   dtypes_, current_id, preprocessors, seqlog, threads, hist>>

\* ------------------------------------------- the merge as a pure function
\* The sections a csv manifest can be: a missing file, or a file of 1..MaxRows
\* rows naming subjects 1..MaxSubj.
AllSections ==
    {MissingCsv} \cup {CsvSection(r, 0, "f") : r \in SeqsUpTo(1..MaxSubj, MaxRows)}

MergeSources == <<"T1", "T2">>
MergeInputs ==
    UNION {[1..k -> AllSections] : k \in 0..Len(MergeSources)}
DataParamOf(sections) ==
    [i \in 1..Len(sections) |-> [name |-> MergeSources[i], section |-> sections[i]]]

NoCall == [op |-> "none"]

\* the callers of the concurrent specification
Callers == {"a", "b"}

\* A caller that is not in a call.
Idle ==
    [pc |-> "idle", seq |-> FALSE, idx |-> -1, k |-> 0, own |-> TRUE,
     layers |-> <<>>, data |-> None, interp |-> None, mask |-> None, drew |-> 0]

NoCallers ==
    /\ threads = [c \in Callers |-> Idle]
    /\ hist = [race |-> FALSE, served |-> [c \in Callers |-> {}], lost |-> {}]

InitMerge ==
    /\ Constructed(<<"image">>)
    /\ seqlog = [calls |-> 0, early |-> 0]
    /\ NoCallers
    /\ \E sections \in MergeInputs :
           arg = [op |-> "merge", data_param |-> DataParamOf(sections)]
    /\ result = [kind |-> "pending"]

DoMerge ==
    /\ arg.op = "merge"
    /\ result.kind = "pending"
    /\ result' = load_and_merge_csv_files(arg.data_param)
    /\ UNCHANGED <<arg, seqlog>>
    /\ ReaderUnchanged

NextMerge == DoMerge

SpecMerge == InitMerge /\ [][NextMerge]_vars

\* ------------------------------------------------ the reader, one caller
Fields == {"image", "label"}
Sources == {"T1", "T2"}

\* the names a reader is constructed with
NamesChoices == {<<>>, <<"image", "label">>}

\* task_param: the sources of each field
SourceTuples == {<<>>, <<"T1">>, <<"T2">>, <<"T1", "T2">>}
TaskParams == [Fields -> SourceTuples]

\* data_param: any sections for any of the sources. T1 is a float image
\* interpolated at order 3, T2 an unsigned label image at order 0.
ReaderRows ==
    {[k \in 1..(b - a + 1) |-> a + k - 1] : a \in 1..MaxRecords, b \in 1..MaxRecords}
    \ {<<>>}
SectionsOf(source) ==
    {MissingCsv} \cup
    {CsvSection(r, IF source = "T1" THEN 3 ELSE 0, IF source = "T1" THEN "f" ELSE "u") :
        r \in ReaderRows}
DataParams ==
    UNION {{dp \in [D -> UNION {SectionsOf(s) : s \in D}] :
               \A s \in D : dp[s] \in SectionsOf(s)} : D \in SUBSET Sources}

\* the layers handed to add_preprocessing_layers
LayerChoices ==
    {NewLayer("plain", FALSE), NewLayer("plain", TRUE), NewLayer("datadep", FALSE),
     NewLayer("random", FALSE), NoneLayer}
LayerLists == UNION {[1..k -> LayerChoices] : k \in 0..MaxLayers}

\* the idx arguments of layer_op
IdxArgs ==
    {IntIdx(v) : v \in -1..MaxRecords}
    \cup {[t |-> "str", v |-> 0]}
    \cup {[t |-> k, v |-> 0] : k \in {"badstr", "inf", "list"}}

\* The catalogues the serving specifications build: every source has all of
\* the rows 1..n.
ServeTaskParams ==
    {[image |-> <<"T1", "T2">>, label |-> <<"T2">>],
     [image |-> <<"T1">>, label |-> <<>>],
     [image |-> <<>>, label |-> <<>>]}
ServeDataParams ==
    {dp \in DataParams :
        /\ DOMAIN dp = Sources
        /\ \A s \in Sources : dp[s].csv_ok /\ dp[s].rows = dp["T1"].rows
        /\ dp["T1"].rows[1] = 1}

Init ==
    /\ \E names \in NamesChoices : Constructed(names)
    /\ arg = NoCall
    /\ result = [kind |-> "none"]
    /\ seqlog = [calls |-> 0, early |-> 0]
    /\ NoCallers

\* One caller at a time: construct, initialise, add layers, access.
Next ==
    \/ \E task_param \in ServeTaskParams, data_param \in ServeDataParams :
          InitialiseReader(task_param, data_param)
    \/ \E layers \in LayerLists, single \in BOOLEAN :
          AddPreprocessingLayers(layers, single)
    \/ LayerOpRandom
    \/ LayerOpSequential
    \/ \E idx \in IdxArgs, shuffle \in BOOLEAN : LayerOpExplicit(idx, shuffle)

Spec == Init /\ [][Next]_vars

\* Initialisation with any task_param and data_param, and the properties.
NextLifecycle ==
    \/ \E task_param \in TaskParams, data_param \in DataParams :
          InitialiseReader(task_param, data_param)
    \/ Shapes
    \/ TfDtypes
    \/ InputSources

SpecLifecycle == Init /\ [][NextLifecycle]_vars

\* Initialisation, accesses without layers, and the cached properties.
NextCache ==
    \/ \E task_param \in ServeTaskParams, data_param \in ServeDataParams :
          InitialiseReader(task_param, data_param)
    \/ LayerOpRandom
    \/ LayerOpSequential
    \/ \E idx \in IdxArgs, shuffle \in BOOLEAN : LayerOpExplicit(idx, shuffle)
    \/ Shapes
    \/ TfDtypes

SpecCache == Init /\ [][NextCache]_vars

\* ------------------------------------------------ the pipeline of layers
\* Lines 116-127 as a function of the record and of the layers: the reader
\* has been initialised and then given, by one add_preprocessing_layers call,
\* a list of up to MaxChain layers; accesses follow.
ChainLayers == {layer \in LayerChoices : ~layer.fails}
Chains == UNION {[1..k -> ChainLayers] : k \in 1..MaxChain}
ApplyIdxArgs == {IntIdx(v) : v \in 0..MaxRecords}
ApplyTaskParams == {[image |-> <<"T1", "T2">>, label |-> <<"T2">>]}

InitApply ==
    \E task_param \in ApplyTaskParams, data_param \in ServeDataParams,
       chain \in Chains :
        LET out == initialise_reader(<<"image", "label">>, task_param, data_param)
        IN /\ names_ = out.fields.names
           /\ input_sources_ = out.fields.input_sources
           /\ file_list_ = out.fields.file_list
           /\ output_list = out.fields.output_list
           /\ shapes_ = None
           /\ dtypes_ = None
           /\ current_id = -1
           /\ preprocessors =
                 add_preprocessing_layers(<<>>, chain, out.fields.output_list)
           /\ arg = NoCall
           /\ result = [kind |-> "none"]
           /\ seqlog = [calls |-> 0, early |-> 0]
           /\ NoCallers

NextApply ==
    \/ LayerOpRandom
    \/ \E idx \in ApplyIdxArgs, shuffle \in BOOLEAN : LayerOpExplicit(idx, shuffle)

SpecApply == InitApply /\ [][NextApply]_vars

\* ------------------------------------------------------- failing layers
\* The reader has been initialised and given a pipeline whose first layer
\* rejects some records, or all, or none; accesses of every mode follow.
FailChains ==
    {<<first>> \o rest :
        first \in {NewLayer("picky", FALSE), NewLayer("plain", TRUE),
                   NewLayer("plain", FALSE)},
        rest \in {<<>>, <<NewLayer("random", FALSE)>>}}

InitFail ==
    \E task_param \in ApplyTaskParams, data_param \in ServeDataParams,
       chain \in FailChains :
        LET out == initialise_reader(<<"image", "label">>, task_param, data_param)
        IN /\ names_ = out.fields.names
           /\ input_sources_ = out.fields.input_sources
           /\ file_list_ = out.fields.file_list
           /\ output_list = out.fields.output_list
           /\ shapes_ = None
           /\ dtypes_ = None
           /\ current_id = -1
           /\ preprocessors =
                 add_preprocessing_layers(<<>>, chain, out.fields.output_list)
           /\ arg = NoCall
           /\ result = [kind |-> "none"]
           /\ seqlog = [calls |-> 0, early |-> 0]
           /\ NoCallers

NextFail ==
    \/ LayerOpRandom
    \/ LayerOpSequential
    \/ \E idx \in ApplyIdxArgs, shuffle \in BOOLEAN : LayerOpExplicit(idx, shuffle)

SpecFail == InitFail /\ [][NextFail]_vars

\* ------------------------------------------ the reader, concurrent callers
\* Each caller runs layer_op statement by statement. A caller's pc names the
\* line it executes next: l101 (the cursor write), l124 (randomise of layer k),
\* l125 (the call of the randomised layer k), l127 (the call of any other
\* layer k). Statements that touch only the caller's own variables are taken
\* together with the next statement that touches the reader.
AllIdle == \A c \in Callers : threads[c].pc = "idle"

\* The layer objects caller c works on: its own copies, or the reader's.
LayersOf(c) == IF threads[c].own THEN threads[c].layers ELSE preprocessors

\* The first position from k on that holds a layer (None is skipped), or
\* one past the end.
RECURSIVE SkipNone(_, _)
SkipNone(layers, k) ==
    IF k > Len(layers) \/ layers[k].kind # "none" THEN k
    ELSE SkipNone(layers, k + 1)

PcAt(layers, k) == IF layers[k].kind = "random" THEN "l124" ELSE "l127"

\* The call of caller c ends with res (line 109, line 128, or an exception);
\* seq tells whether it is a sequential-mode access, of index threads[c].idx.
FinishAs(c, seq, res) ==
    /\ threads' = [threads EXCEPT ![c] = Idle]
    /\ hist' = IF seq /\ res.kind = "return" /\ Val(res.value).idx >= 0
               THEN [hist EXCEPT !.served[c] = @ \cup {Val(res.value).idx}]
               ELSE IF seq /\ res.kind = "raise"
               THEN [hist EXCEPT !.lost = @ \cup {threads[c].idx}]
               ELSE hist

Finish(c, res) == FinishAs(c, threads[c].seq, res)

\* Lines 103-119 for caller c, idx being what lines 93-101 left: the call
\* ends, or c stands before the first layer of its copied list.
Enter(c, idx, seq) ==
    LET r == Resolve(idx, output_list)
        copy == DeepCopyLayers(preprocessors)
        k == SkipNone(copy.layers, 1)
    IN IF r.kind = "ends" THEN FinishAs(c, seq, r.result)
       ELSE IF preprocessors = <<>> \/ k > Len(copy.layers)
       THEN FinishAs(c, seq, Triple(r.idx, r.data, r.interp))
       ELSE /\ threads' = [threads EXCEPT ![c] =
                  [pc |-> PcAt(copy.layers, k), seq |-> seq, idx |-> r.idx,
                   k |-> k, own |-> copy.own,
                   layers |-> IF copy.own THEN copy.layers ELSE <<>>,
                   data |-> Some(r.data), interp |-> Some(r.interp),
                   mask |-> None, drew |-> 0]]
            /\ UNCHANGED hist

ReaderFieldsUnchanged ==
    UNCHANGED <<names_, input_sources_, file_list_, output_list, shapes_, dtypes_,
                arg, result, seqlog>>

\* caller c calls layer_op(idx, shuffle) with an idx
ConcExplicit(c, idx, shuffle) ==
    /\ threads[c].pc = "idle"
    /\ idx.t # "None"
    /\ Enter(c, idx, FALSE)
    /\ UNCHANGED <<current_id, preprocessors>>
    /\ ReaderFieldsUnchanged

\* caller c calls layer_op(): line 95, then on from line 103
ConcRandom(c) ==
    /\ threads[c].pc = "idle"
    /\ IF IsNone(output_list)
       THEN FinishAs(c, FALSE, Raise("TypeError"))
       ELSE \E r \in RandInt(Len(Val(output_list))) : Enter(c, IntIdx(r), FALSE)
    /\ UNCHANGED <<current_id, preprocessors>>
    /\ ReaderFieldsUnchanged

\* caller c calls layer_op(shuffle=False): line 100, the read of the cursor
ConcReadCursor(c) ==
    /\ threads[c].pc = "idle"
    /\ current_id < MaxSeq
    /\ threads' = [threads EXCEPT ![c] =
          [Idle EXCEPT !.pc = "l101", !.seq = TRUE, !.idx = SeqIdx(current_id)]]
    /\ hist' = [hist EXCEPT !.race =
          @ \/ \E d \in Callers \ {c} : threads[d].pc = "l101"]
    /\ UNCHANGED <<current_id, preprocessors>>
    /\ ReaderFieldsUnchanged

\* line 101, the write of the cursor, then on from line 103
ConcWriteCursor(c) ==
    /\ threads[c].pc = "l101"
    /\ current_id' = CursorAfter(current_id, threads[c].idx)
    /\ Enter(c, IntIdx(threads[c].idx), TRUE)
    /\ UNCHANGED preprocessors
    /\ ReaderFieldsUnchanged

\* The layer objects of caller c become `layers`.
StoreLayers(c, layers, local) ==
    IF threads[c].own
    THEN /\ threads' = [threads EXCEPT ![c] = [local EXCEPT !.layers = layers]]
         /\ UNCHANGED preprocessors
    ELSE /\ threads' = [threads EXCEPT ![c] = local]
         /\ preprocessors' = layers

\* line 124: layer.randomise()
ConcRandomise(c) ==
    /\ threads[c].pc = "l124"
    /\ \E r \in 1..MaxDraw :
          StoreLayers(c, RandomiseTurn(LayersOf(c), threads[c].k, r),
                      [threads[c] EXCEPT !.pc = "l125", !.drew = r])
    /\ UNCHANGED <<current_id, hist>>
    /\ ReaderFieldsUnchanged

\* line 125 or line 127: the layer is called; then the next layer, or line 128
ConcCallLayer(c) ==
    /\ threads[c].pc \in {"l125", "l127"}
    /\ LET me == threads[c]
           t == CallTurn(LayersOf(c), me.k, Val(me.data), Val(me.interp), me.mask)
           k == SkipNone(t.layers, me.k + 1)
       IN IF t.kind = "raise"
          THEN /\ Finish(c, Raise("LayerError"))
               /\ UNCHANGED preprocessors
          ELSE IF k > Len(t.layers)
          THEN /\ Finish(c, Triple(me.idx, t.data, Val(me.interp)))
               /\ preprocessors' = IF me.own THEN preprocessors ELSE t.layers
          ELSE /\ StoreLayers(c, t.layers,
                      [me EXCEPT !.pc = PcAt(t.layers, k), !.k = k,
                                 !.data = Some(t.data), !.mask = t.mask])
               /\ UNCHANGED hist
    /\ UNCHANGED current_id
    /\ ReaderFieldsUnchanged

\* The reader is initialised and given its layers while no call is running:
\* one add_preprocessing_layers call with one layer.
ConcTaskParams == {[image |-> <<"T1", "T2">>, label |-> <<"T2">>]}
ConcLayerLists == {<<layer>> : layer \in LayerChoices}

NextConc ==
    \/ /\ AllIdle
       /\ \E task_param \in ConcTaskParams, data_param \in ServeDataParams :
             InitialiseReader(task_param, data_param)
    \/ /\ AllIdle
       /\ preprocessors = <<>>
       /\ \E layers \in ConcLayerLists, single \in BOOLEAN :
             AddPreprocessingLayers(layers, single)
    \/ \E c \in Callers :
          \/ \E idx \in IdxArgs, shuffle \in BOOLEAN : ConcExplicit(c, idx, shuffle)
          \/ ConcRandom(c)
          \/ ConcReadCursor(c)
          \/ ConcWriteCursor(c)
          \/ ConcRandomise(c)
          \/ ConcCallLayer(c)

InitConc ==
    /\ Constructed(<<"image", "label">>)
    /\ arg = NoCall
    /\ result = [kind |-> "none"]
    /\ seqlog = [calls |-> 0, early |-> 0]
    /\ NoCallers

SpecConc == InitConc /\ [][NextConc]_vars

\* ================================================================ claims
LastIsLayerOp == arg.op = "layer_op"
LastIsSequential == LastIsLayerOp /\ arg.idx = NoIdx /\ ~arg.shuffle
LastIsExplicit == LastIsLayerOp /\ arg.idx # NoIdx
NRecords == Len(Val(output_list))
SomeLayerFails == \E k \in 1..Len(preprocessors) : preprocessors[k].fails
Returned == Val(result.value)

\* C1: on a reader that was initialised before its first sequential-mode
\* access and holds N records, the k-th sequential-mode access returns the
\* resolved index k-1 with its data for k <= N (unless a layer of the pipeline
\* raises, which reaches the caller), and the sentinel (-1, None, None) for
\* every k > N.
C1_SequentialOrder ==
    (LastIsSequential /\ ~IsNone(output_list) /\ seqlog.early = 0) =>
        IF seqlog.calls <= NRecords
        THEN IF SomeLayerFails
             THEN result = Raise("LayerError")
             ELSE /\ result.kind = "return"
                  /\ Returned.idx = seqlog.calls - 1
                  /\ ~IsNone(Returned.data)
                  /\ ~IsNone(Returned.interp)
        ELSE result = Return(Sentinel)

\* C1 witness: a reader of two records has served 0 and 1 and its third
\* sequential-mode access has returned the sentinel.
C1_Witness ==
    /\ LastIsSequential
    /\ ~IsNone(output_list)
    /\ NRecords = 2
    /\ seqlog = [calls |-> 3, early |-> 0]
    /\ current_id = 2
    /\ result = Return(Sentinel)

\* An explicit idx that is an integer outside [0, N) or that int() rejects.
InvalidIdx(idx) ==
    \/ idx.t = "int" /\ (idx.v < 0 \/ idx.v >= NRecords)
    \/ idx.t \in {"badstr", "inf", "list"}

\* C2 (as claimed): on an initialised reader every explicit idx that is an
\* integer outside [0, N), or that cannot be coerced to an integer, makes
\* layer_op return the sentinel (-1, None, None) and raise nothing.
C2_InvalidGivesSentinel ==
    (LastIsExplicit /\ ~IsNone(output_list) /\ InvalidIdx(arg.idx)) =>
        result = Return(Sentinel)

\* C3: on an initialised reader of N records an explicit idx i in [0, N),
\* with either shuffle flag and any cursor, is returned as the resolved index
\* together with a data dict and an interp_order dict whose keys are the
\* reader's names, the interp_order dict holding the interp_order of each
\* field's image (unless a layer of the pipeline raises, which reaches the
\* caller).
C3_ExplicitValid ==
    (/\ LastIsExplicit
     /\ ~IsNone(output_list)
     /\ arg.idx.t \in {"int", "str"}
     /\ arg.idx.v >= 0
     /\ arg.idx.v < NRecords) =>
        IF SomeLayerFails
        THEN result = Raise("LayerError")
        ELSE /\ result.kind = "return"
             /\ Returned.idx = arg.idx.v
             /\ ~IsNone(Returned.data)
             /\ ~IsNone(Returned.interp)
             /\ DOMAIN Val(Returned.data) = Range(names_)
             /\ DOMAIN Val(Returned.interp) = Range(names_)
             /\ \A field \in Range(names_) :
                   Val(Returned.interp)[field] =
                       Val(output_list)[arg.idx.v + 1][field].interp_order

\* C3 witness: with the cursor moved and shuffle=True, idx=1 is served from a
\* reader of two fields through a layer.
C3_Witness ==
    /\ LastIsExplicit
    /\ arg.idx = IntIdx(1)
    /\ arg.shuffle
    /\ current_id >= 0
    /\ Len(preprocessors) > 0
    /\ result.kind = "return"
    /\ Returned.idx = 1
    /\ ~IsNone(Returned.data)
    /\ DOMAIN Val(Returned.data) = {"image", "label"}

\* ---- the merge
MergeCalled == arg.op = "merge" /\ result.kind # "pending"
MergeReturned == arg.op = "merge" /\ result.kind = "return"
NManifests == Len(arg.data_param)
ManifestIds(k) == arg.data_param[k].section.rows
JointTable == Val(result.value)
JointSubjects == [i \in 1..Len(JointTable) |-> JointTable[i].subject_id]
\* the subjects named by each of the manifests 1..k
SubjectsOfAll(k) ==
    {s \in Range(ManifestIds(1)) : \A j \in 1..k : s \in Range(ManifestIds(j))}
NoRepeats(ids) == \A i, j \in 1..Len(ids) : ids[i] = ids[j] => i = j

\* C4 (as claimed): for any manifests, also with a subject_id on several
\* rows, the joint table has at most as many rows as the shortest manifest
\* and exactly one row per subject that all manifests name.
C4_RowCountBound ==
    MergeReturned =>
        /\ Len(JointTable) <= SeqMin([k \in 1..NManifests |-> Len(ManifestIds(k))])
        /\ Len(JointTable) = Cardinality(SubjectsOfAll(NManifests))

\* C5: the subjects of the joint table are exactly the subjects that every
\* manifest names, in the order in which the first manifest names them; when
\* no manifest repeats a subject the subject column is the first manifest's
\* with the other subjects struck out.
C5_MergeResult ==
    MergeReturned =>
        LET common == SubjectsOfAll(NManifests)
            InCommon(s) == s \in common
        IN /\ Range(JointSubjects) = common
           /\ Dedup(JointSubjects) = SelectSeq(Dedup(ManifestIds(1)), InCommon)
           /\ (\A k \in 1..NManifests : NoRepeats(ManifestIds(k))) =>
                 JointSubjects = SelectSeq(ManifestIds(1), InCommon)

\* C5 witness: A = 1,2,3 and B = 2,3,4 are merged to exactly 2,3.
C5_Witness ==
    /\ MergeReturned
    /\ NManifests = 2
    /\ ManifestIds(1) = <<1, 2, 3>>
    /\ ManifestIds(2) = <<2, 3, 4>>
    /\ JointSubjects = <<2, 3>>

\* C6 (as claimed): whenever joining manifest k drops a row of the table
\* merged so far (a subject of manifests 1..k-1 that manifest k does not
\* name), the mismatch warning is logged for manifest k, also when manifest k
\* repeats subject ids.
C6_DropWarns ==
    MergeCalled =>
        \A k \in 2..NManifests :
            (/\ \A j \in 1..k : arg.data_param[j].section.csv_ok
             /\ SubjectsOfAll(k - 1) # SubjectsOfAll(k)) =>
                arg.data_param[k].name \in Range(result.warned)

\* ---- initialisation
LastIsProperty == arg.op \in {"shapes", "tf_dtypes", "input_sources"}

\* C7 (as claimed): while no initialise_reader call has completed (none made,
\* or every one aborted by an error), shapes, tf_dtypes and input_sources
\* raise the not-initialised RuntimeError.
C7_UninitialisedRaises ==
    (LastIsProperty /\ IsNone(output_list)) => result = Raise("RuntimeError")

\* The names that initialise_reader keeps: those task_param gives sources.
ActiveNames(names, task_param) ==
    {names[i] : i \in {j \in 1..Len(names) : task_param[names[j]] # <<>>}}

\* C8 (as claimed): when names are given but task_param has sources for none
\* of them, initialise_reader raises the configuration error (ValueError, as
\* for missing names).
C8_EmptyActiveSetIsConfigError ==
    [][(/\ arg'.op = "initialise_reader"
        /\ arg' # arg \/ result' # result \/ names_' # names_
        /\ names_ # <<>>
        /\ ActiveNames(names_, arg'.task_param) = {}) =>
            result' = Raise("ValueError")]_vars

\* ---- concurrent callers
\* C9: no step of a layer_op call changes the reader's layer list or any of
\* its layer objects (only add_preprocessing_layers does), and a caller that
\* has randomised a layer and is about to call it finds in it the parameters
\* it drew itself, whatever the other caller did in between.
C9_AccessIsolation ==
    [][/\ \/ preprocessors' = preprocessors
          \/ \E layers \in LayerLists, single \in BOOLEAN :
                AddPreprocessingLayers(layers, single)
       /\ \A c \in Callers :
             threads'[c].pc = "l125" =>
                IF threads'[c].own
                THEN threads'[c].layers[threads'[c].k].rnd = threads'[c].drew
                ELSE preprocessors'[threads'[c].k].rnd = threads'[c].drew]_vars

\* C9 witness: both callers are inside an access of a reader whose pipeline
\* holds a RandomisedLayer, each about to call its own copy, and the two
\* copies hold different draws while the reader's layer holds none.
C9_Witness ==
    /\ threads["a"].pc = "l125"
    /\ threads["b"].pc = "l125"
    /\ threads["a"].k = threads["b"].k
    /\ threads["a"].layers[threads["a"].k].rnd # threads["b"].layers[threads["b"].k].rnd
    /\ preprocessors[threads["a"].k].rnd = 0

\* the indices that sequential-mode accesses returned to both callers
ServedTwice == hist.served["a"] \cap hist.served["b"]

\* C10: an index is returned to both callers by sequential-mode accesses only
\* after one caller read the cursor between the other's read and write of it
\* (and such an interleaving is reachable: the witness).
C10_DuplicateOnlyByRace == ServedTwice # {} => hist.race

\* C10 witness: both callers read the cursor before either wrote it, and the
\* same index in [0, N) has been returned to both.
C10_Witness ==
    /\ hist.race
    /\ \E i \in ServedTwice : i >= 0 /\ i < NRecords
    /\ AllIdle

\* the indices sequential-mode accesses returned to some caller, and the
\* indices of [0, N) returned to no caller although a larger one was returned
ServedAny == UNION {hist.served[c] : c \in Callers}
Skipped ==
    {i \in 0..(NRecords - 1) : i \notin ServedAny /\ \E j \in ServedAny : j > i}

\* a sequential-mode access that resolved index i is past line 100 and has
\* not returned yet
InFlight(i) ==
    \E c \in Callers : threads[c].pc # "idle" /\ threads[c].seq /\ threads[c].idx = i

ShapesOfFirst == [field \in Range(names_) |-> ShapeOf(Val(output_list)[1][field])]
DtypesOfFirst ==
    [field \in Range(names_) |-> infer_tf_dtypes(Val(output_list)[1][field])]

\* C12: a cache that is filled is never changed by any later access or query,
\* whatever comes in between; a query before initialisation raises
\* RuntimeError and fills nothing; the first query after it fills the cache
\* with what record 0 gives, and every query returns the content of its cache.
C12_Memoised ==
    [][/\ ~IsNone(shapes_) => shapes_' = shapes_
       /\ ~IsNone(dtypes_) => dtypes_' = dtypes_
       /\ arg'.op = "shapes" =>
             IF IsNone(output_list)
             THEN result' = Raise("RuntimeError") /\ IsNone(shapes_')
             ELSE /\ result' = Return(ShapesOfFirst)
                  /\ shapes_' = Some(ShapesOfFirst)
       /\ arg'.op = "tf_dtypes" =>
             IF IsNone(output_list)
             THEN result' = Raise("RuntimeError") /\ IsNone(dtypes_')
             ELSE /\ result' = Return(DtypesOfFirst)
                  /\ dtypes_' = Some(DtypesOfFirst)]_vars

\* C12 witness: both caches are filled, sequential accesses have moved the
\* cursor, and a shapes query has returned the content of its cache.
C12_Witness ==
    /\ arg.op = "shapes"
    /\ ~IsNone(shapes_)
    /\ ~IsNone(dtypes_)
    /\ current_id >= 1
    /\ result = Return(Val(shapes_))

\* ---- the empty merge
\* The sources the last initialise_reader call loads: those task_param gives
\* to the names the reader keeps.
LoadedSources == UNION {Range(arg.task_param[name]) : name \in Range(names_)}

\* Every loaded source has a section with a readable csv file, and no subject
\* is named by all of them: the inner join has no row.
JoinIsEmpty ==
    /\ LoadedSources # {}
    /\ \A s \in LoadedSources : s \in DOMAIN arg.data_param /\ arg.data_param[s].csv_ok
    /\ ~\E subj \in 1..MaxSubj :
          \A s \in LoadedSources : subj \in Range(arg.data_param[s].rows)

\* C13: when the manifests an initialise_reader call merges have no subject
\* in common, the call raises IOError and the reader has neither a joint
\* table nor a list of records.
C13_EmptyMergeFails ==
    (arg.op = "initialise_reader" /\ JoinIsEmpty) =>
        /\ result.kind = "raise"
        /\ result.err = "IOError"
        /\ IsNone(file_list_)
        /\ IsNone(output_list)

\* C13 witness: T1 names subject 1 only and T2 subject 2 only; the call that
\* merges them has raised IOError.
C13_Witness ==
    /\ arg.op = "initialise_reader"
    /\ LoadedSources = {"T1", "T2"}
    /\ JoinIsEmpty
    /\ arg.data_param["T1"].rows = <<1>>
    /\ arg.data_param["T2"].rows = <<2>>
    /\ result.kind = "raise"
    /\ result.err = "IOError"

\* ---- the pipeline
NoRandomLayer == \A k \in 1..Len(preprocessors) : preprocessors[k].kind # "random"

\* the mask the layer at position k is given: None (0) for the first layer
\* that is neither None nor a RandomisedLayer, and one more after each of them
MaskAt(layers, k) ==
    Cardinality({j \in 1..(k - 1) : layers[j].kind \notin {"none", "random"}})

\* What becomes of the volume d when the layers from position k on are
\* applied to it in list order, each in the state add_preprocessing_layers
\* left it in, a RandomisedLayer with the parameters draws[k].
RECURSIVE StageFold(_, _, _, _)
StageFold(layers, k, d, draws) ==
    IF k > Len(layers) THEN d
    ELSE IF layers[k].kind = "none" THEN StageFold(layers, k + 1, d, draws)
    ELSE IF layers[k].kind = "random"
    THEN StageFold(layers, k + 1, (d + draws[k]) % DataMod, draws)
    ELSE StageFold(layers, k + 1,
             (2 * d + (IF layers[k].kind = "datadep" THEN layers[k].fitted + 1 ELSE 1)
              + MaskAt(layers, k)) % DataMod,
             draws)
NoDraws == [k \in 1..Len(preprocessors) |-> 0]

\* C14: with no RandomisedLayer in the pipeline, the data an access returns
\* for a record is a function of the record's volumes and of the layers as
\* add_preprocessing_layers left them, whatever accesses were made before:
\* two accesses to the same index return the same data, although every layer
\* changes its own state when it is called.
C14_Deterministic ==
    (/\ LastIsLayerOp
     /\ NoRandomLayer
     /\ result.kind = "return"
     /\ Returned.idx >= 0) =>
        \A field \in DOMAIN Val(Returned.data) :
            Val(Returned.data)[field] =
                StageFold(preprocessors, 1,
                          GetData(Val(output_list)[Returned.idx + 1][field]), NoDraws)

\* C14 witness: index 0 is returned by an explicit access through a layer
\* that changes its state when called, after sequential accesses have served
\* index 0 and more.
C14_Witness ==
    /\ LastIsExplicit
    /\ arg.idx = IntIdx(0)
    /\ seqlog.early = 0
    /\ current_id >= 1
    /\ Len(preprocessors) > 0
    /\ \A k \in 1..Len(preprocessors) : preprocessors[k].kind \in {"plain", "datadep"}
    /\ result.kind = "return"
    /\ Returned.idx = 0

\* ---- random mode
LastIsRandom == LastIsLayerOp /\ arg.idx = NoIdx /\ arg.shuffle

\* the first layer of the pipeline raises on record i
FirstLayerRejects(i) ==
    /\ preprocessors # <<>>
    /\ \/ preprocessors[1].fails
       \/ /\ preprocessors[1].kind = "picky"
          /\ \E field \in DOMAIN Val(output_list)[i + 1] :
                GetData(Val(output_list)[i + 1][field]) % 2 = 1

\* C15: on an initialised reader of N records an access with no idx and
\* shuffle=True returns a resolved index in [0, N) with its data, never the
\* sentinel (or raises the exception of a layer that rejects the record), and
\* for every index of [0, N) such an access can resolve it: it can return
\* every record that no layer rejects.
C15_RandomRange ==
    ~IsNone(output_list) =>
        /\ LastIsRandom =>
              \/ /\ result = Raise("LayerError")
                 /\ \E i \in 0..(NRecords - 1) : FirstLayerRejects(i)
              \/ /\ result.kind = "return"
                 /\ Returned.idx \in 0..(NRecords - 1)
                 /\ ~FirstLayerRejects(Returned.idx)
                 /\ ~IsNone(Returned.data)
        /\ \A i \in 0..(NRecords - 1) :
              IF FirstLayerRejects(i)
              THEN ENABLED (LayerOpRandom /\ result' = Raise("LayerError"))
              ELSE ENABLED (LayerOpRandom /\ result'.kind = "return"
                            /\ Val(result'.value).idx = i)

\* C15 witness: on a reader of two records, through a pipeline that rejects
\* no record, a random-mode access has returned index 1, the last one.
C15_Witness ==
    /\ LastIsRandom
    /\ ~IsNone(output_list)
    /\ NRecords = 2
    /\ ~FirstLayerRejects(0)
    /\ ~FirstLayerRejects(1)
    /\ result.kind = "return"
    /\ Returned.idx = 1

\* ---- the cursor, one caller
\* the step is a sequential-mode access
SequentialStep ==
    /\ arg'.op = "layer_op"
    /\ arg'.idx = NoIdx
    /\ ~arg'.shuffle
    /\ seqlog'.calls = seqlog.calls + 1

\* C16: the cursor is always the number of sequential-mode accesses made so
\* far minus one (-1 at first); a sequential-mode access adds exactly one,
\* whatever it returns or raises, and no other call changes it; on an
\* initialised reader a sequential-mode access serves index cursor + 1
\* whatever explicit and random accesses came in between, and returns the
\* sentinel once cursor + 1 has reached N, so after a sentinel every later
\* sequential-mode access returns the sentinel.
C16_CursorInvariant ==
    /\ [](current_id = seqlog.calls - 1)
    /\ [][/\ IF SequentialStep
             THEN current_id' = current_id + 1
             ELSE current_id' = current_id /\ seqlog' = seqlog
          /\ (SequentialStep /\ ~IsNone(output_list)) =>
                IF current_id + 1 >= NRecords
                THEN result' = Return(Sentinel)
                ELSE IF SomeLayerFails
                THEN result' = Raise("LayerError")
                ELSE /\ result'.kind = "return"
                     /\ Val(result'.value).idx = current_id + 1]_vars

\* C16 witness: on a reader of one record the second and the third
\* sequential-mode access have moved the cursor to 2, and the third has
\* returned the sentinel as the second did.
C16_Witness ==
    /\ LastIsSequential
    /\ ~IsNone(output_list)
    /\ NRecords = 1
    /\ seqlog = [calls |-> 3, early |-> 0]
    /\ current_id = 2
    /\ result = Return(Sentinel)

\* ---- fitting
\* the last call is an access that applied the layers to a record
AppliedLayers ==
    /\ LastIsLayerOp
    /\ result.kind = "return"
    /\ Returned.idx >= 0
    /\ preprocessors # <<>>

\* C17 (as claimed): in whatever order initialise_reader,
\* add_preprocessing_layers and layer_op are called, every DataDependentLayer
\* an access applies was trained on the full list of records the access
\* serves from.
C17_FitBeforeServe ==
    AppliedLayers =>
        \A k \in 1..Len(preprocessors) :
            preprocessors[k].kind = "datadep" => preprocessors[k].fitted = NRecords

\* what train leaves in a layer for the records the reader holds now
FitNow == IF IsNone(output_list) THEN 0 ELSE NRecords

\* layer `after` is layer `before` with train called on it, if it is a
\* DataDependentLayer, and with nothing done to it otherwise
TrainedIfDataDependent(before, after) ==
    IF before.kind = "datadep"
    THEN after = [before EXCEPT !.fitted = FitNow]
    ELSE after = before

DrawsOfAccess ==
    {d \in [1..Len(preprocessors) -> 0..MaxDraw] :
        \A k \in 1..Len(preprocessors) :
            (d[k] > 0) <=> (preprocessors[k].kind = "random")}

\* C19: the data an access returns is what the layers make of the record's
\* volumes when they are applied in list order, None skipped; a
\* RandomisedLayer with parameters it drew in this access, given the data and
\* the interp orders and no mask; every other layer given the mask returned
\* by the closest layer before it that is no RandomisedLayer (None for the
\* first), RandomisedLayers in between leaving that mask as it is. The interp
\* orders are returned as fetched.
C19_ApplyOrder ==
    (LastIsLayerOp /\ result.kind = "return" /\ Returned.idx >= 0) =>
        LET record == Val(output_list)[Returned.idx + 1]
        IN /\ Val(Returned.interp) = InterpOrderDict(record)
           /\ \E draws \in DrawsOfAccess :
                 \A field \in DOMAIN record :
                     Val(Returned.data)[field] =
                         StageFold(preprocessors, 1, GetData(record[field]), draws)

\* C19 witness: an access has returned data through a pipeline of three
\* layers, a RandomisedLayer between two layers that pass the mask on.
C19_Witness ==
    /\ LastIsLayerOp
    /\ result.kind = "return"
    /\ Returned.idx >= 0
    /\ Len(preprocessors) = 3
    /\ preprocessors[1].kind = "plain"
    /\ preprocessors[2].kind = "random"
    /\ preprocessors[3].kind = "datadep"

\* ---- a layer that raises, sequential mode
\* C20: a sequential-mode access whose record a layer rejects raises the
\* layer's exception and returns no record, and its cursor advance stays;
\* every sequential-mode access moves the cursor on by one and, when it
\* returns a record, returns index cursor + 1, above every index resolved
\* before: the access after a failed one serves the following index and the
\* failed index is never served by a later sequential-mode access.
C20_FailureKeepsAdvance ==
    [][SequentialStep =>
          /\ current_id' = current_id + 1
          /\ (current_id + 1 < NRecords /\ FirstLayerRejects(current_id + 1)) =>
                result' = Raise("LayerError")
          /\ (result'.kind = "return" /\ Val(result'.value).idx >= 0) =>
                Val(result'.value).idx = current_id + 1]_vars

\* C20 witness: the first layer rejects record 0 and not record 1; the first
\* sequential-mode access has raised and the second has returned index 1.
C20_Witness ==
    /\ LastIsSequential
    /\ NRecords = 2
    /\ FirstLayerRejects(0)
    /\ ~FirstLayerRejects(1)
    /\ seqlog = [calls |-> 2, early |-> 0]
    /\ current_id = 1
    /\ result.kind = "return"
    /\ Returned.idx = 1

====
